---- MODULE Spec2Model ----
(***************************************************************************)
(* Stock Backtester: backtester.py (metrics, chart normalisation, the      *)
(* comparison run of main) and launcher.py (the interactive front end that *)
(* starts backtester.py as a subprocess).                                  *)
(*                                                                         *)
(* Numbers.  pandas works on IEEE doubles; here the real value of every    *)
(* number is an exact rational <<n, d>> in lowest terms with d > 0,        *)
(* wrapped in a record with a nan flag: [nan |-> BOOLEAN, q |-> <<n, d>>]. *)
(* Where the rounding error of the doubles decides what the code returns,  *)
(* the model returns every outcome the doubles can give:                   *)
(*   - round(x, 2) of a value that lies exactly half way between two       *)
(*     hundredths goes to the even one when x was computed without         *)
(*     rounding error (dyadic operands), and to either neighbour when not; *)
(*   - std() of three or more equal returns that are not dyadic is 0 or a  *)
(*     tiny positive number (about 1e-16), called noise below.             *)
(* calculate_metrics is therefore the SET of records the code may return.  *)
(* Three results are irrational in general and are kept as terms under     *)
(* their round(., 2):                                                      *)
(*   - the annualized return  ((base ^ (252 / len)) - 1) * 100  is the     *)
(*     record [base, len, days], with base = 1 + total_return / 100;       *)
(*   - the volatility  std * sqrt(252) * 100  is the record of the sample  *)
(*     variance of the daily returns, with nan, noise, and zero: whether   *)
(*     the rounded value reported is 0.0;                                  *)
(*   - the Sharpe ratio is the integer 0 of the else branch (zero = TRUE)  *)
(*     or the term excess_return / (volatility / 100).                     *)
(* Rationals are assumed to stay within 32-bit numerators/denominators.    *)
(***************************************************************************)
EXTENDS Integers, Sequences, FiniteSets, TLC

\* ------------------------------------------------------------------ bounds
MaxLen == 4          \* longest price series handed to calculate_metrics
MaxPrice == 3        \* prices are drawn from 1..MaxPrice
MaxTickers == 2      \* longest --tickers list

\* ------------------------------------------------------- program constants
TradingDays == 252

\* ------------------------------------------------------- exact rationals
Abs(x) == IF x < 0 THEN -x ELSE x

RECURSIVE GCD(_, _)
GCD(a, b) == IF b = 0 THEN a ELSE GCD(b, a % b)

LCM(a, b) == (a \div GCD(a, b)) * b

\* <<n, d>> in lowest terms, d > 0
Norm(n, d) ==
    LET s == IF d < 0 THEN -1 ELSE 1
        g == GCD(Abs(n), Abs(d))
    IN  <<(s * n) \div g, (s * d) \div g>>

RAdd(x, y) ==
    LET l == LCM(x[2], y[2])
    IN  Norm(x[1] * (l \div x[2]) + y[1] * (l \div y[2]), l)

RNeg(x) == <<-x[1], x[2]>>
RSub(x, y) == RAdd(x, RNeg(y))

\* cross-reduced before multiplying, so that the products stay small
RMul(x, y) ==
    LET g1 == GCD(Abs(x[1]), y[2])
        g2 == GCD(Abs(y[1]), x[2])
    IN  Norm((x[1] \div g1) * (y[1] \div g2), (x[2] \div g2) * (y[2] \div g1))

RDiv(x, y) == RMul(x, Norm(y[2], y[1]))
RLess(x, y) == RSub(x, y)[1] < 0
RInt(k) == <<k, 1>>
RZero == RInt(0)
ROne == RInt(1)
RHundred == RInt(100)

Num(q) == [nan |-> FALSE, q |-> q]
NaN == [nan |-> TRUE, q |-> RZero]

\* round(x, 2): the nearest multiple of 1/100, ties to even; nan stays nan
Round2(x) ==
    IF x.nan THEN NaN
    ELSE LET m == x.q[1] * 100
             d == x.q[2]
             f == m \div d
             r == m - f * d
             k == IF 2 * r < d THEN f
                  ELSE IF 2 * r > d THEN f + 1
                  ELSE IF f % 2 = 0 THEN f ELSE f + 1
         IN  Num(Norm(k, 100))

\* a power of two: doubles hold n / d exactly (for the small n of the model)
RECURSIVE IsPow2(_)
IsPow2(d) == d = 1 \/ (d % 2 = 0 /\ IsPow2(d \div 2))
IsDyadic(q) == IsPow2(q[2])

\* round(x, 2) of the double computed for x: Round2 when x is not half way
\* between two hundredths, or when it is and the double is exact; otherwise
\* the rounding error of the double decides between the two neighbours
Round2F(x, exact) ==
    IF x.nan THEN {NaN}
    ELSE LET m == x.q[1] * 100
             d == x.q[2]
             f == m \div d
             r == m - f * d
         IN  IF 2 * r = d /\ ~exact
             THEN {Num(Norm(f, 100)), Num(Norm(f + 1, 100))}
             ELSE {Round2(x)}

\* ------------------------------------------------------------ price data
\* A pandas object holding closing prices: a Series (scalar = FALSE, v the
\* prices in date order) or, after squeeze() of a single element, a numpy
\* scalar (scalar = TRUE, v = <<the price>>).
Series(v) == [scalar |-> FALSE, v |-> v]
Scalar(p) == [scalar |-> TRUE, v |-> <<p>>]

RECURSIVE SeqsUpTo(_, _)
SeqsUpTo(S, n) ==
    IF n = 0 THEN {<<>>}
    ELSE LET shorter == SeqsUpTo(S, n - 1)
         IN  shorter \cup {Append(s, x) : s \in {t \in shorter : Len(t) = n - 1}, x \in S}

Prices == 1..MaxPrice
AllSeries == SeqsUpTo(Prices, MaxLen)

\* --------------------------------------------------- pandas Series methods
\* Series.pct_change(): nan first, then p_i / p_{i-1} - 1
pct_change(v) ==
    [i \in 1..Len(v) |->
        IF i = 1 THEN NaN
        ELSE Num(RSub(RDiv(RInt(v[i]), RInt(v[i - 1])), ROne))]

IsNum(x) == ~x.nan
dropna(s) == SelectSeq(s, IsNum)

RECURSIVE SumQ(_)
SumQ(s) == IF s = <<>> THEN RZero ELSE RAdd(s[1].q, SumQ(Tail(s)))

\* the sample variance (ddof = 1) under Series.std(), in exact arithmetic:
\* nan for fewer than two observations
SampleVar(s) ==
    IF Len(s) < 2 THEN NaN
    ELSE LET mean == RDiv(SumQ(s), RInt(Len(s)))
             sq == [i \in 1..Len(s) |->
                       Num(RMul(RSub(s[i].q, mean), RSub(s[i].q, mean)))]
         IN  Num(RDiv(SumQ(sq), RInt(Len(s) - 1)))

\* Series.std() in doubles: [nan, var, noise].  Equal returns are equal
\* doubles; their mean (sum / count) is the same double again for two of
\* them and for dyadic ones, so the deviations are 0.0.  For three or more
\* equal returns that are not dyadic the sum is rounded, the mean may be one
\* ulp off and std() may be a tiny positive number instead of 0.0.
StdOutcomes(s) ==
    LET var == SampleVar(s)
    IN  IF var.nan THEN {[nan |-> TRUE, var |-> RZero, noise |-> FALSE]}
        ELSE IF var.q = RZero /\ Len(s) >= 3 /\ \E k \in 1..Len(s) : ~IsDyadic(s[k].q)
             THEN {[nan |-> FALSE, var |-> RZero, noise |-> FALSE],
                   [nan |-> FALSE, var |-> RZero, noise |-> TRUE]}
             ELSE {[nan |-> FALSE, var |-> var.q, noise |-> FALSE]}

\* `volatility > 0` for volatility = std * (252 ** 0.5) * 100: False for nan
VolPositive(sd) == ~sd.nan /\ (sd.noise \/ RLess(RZero, sd.var))

\* round(volatility, 2) = 0.0: volatility < 0.005, that is
\* 252 * 10^4 * var < 0.000025, that is n * 100800000000 < d for var = n / d
RoundsToZero(sd) ==
    /\ ~sd.nan
    /\ sd.var[1] <= ((sd.var[2] - 1) \div 100800) \div 1000000

\* "Volatility (%)": round(volatility, 2), as a term
VolatilityOf(sd) ==
    [ndigits |-> 2, nan |-> sd.nan, var |-> sd.var, noise |-> sd.noise,
     zero |-> RoundsToZero(sd)]

\* (1 + s).cumprod()
RECURSIVE cumprod1p(_)
cumprod1p(s) ==
    IF s = <<>> THEN <<>>
    ELSE LET init == cumprod1p(SubSeq(s, 1, Len(s) - 1))
             last == RAdd(ROne, s[Len(s)].q)
         IN  Append(init, IF init = <<>> THEN Num(last)
                          ELSE Num(RMul(init[Len(init)].q, last)))

RECURSIVE cummax(_)
cummax(s) ==
    IF s = <<>> THEN <<>>
    ELSE LET init == cummax(SubSeq(s, 1, Len(s) - 1))
             x == s[Len(s)]
         IN  Append(init, IF init = <<>> THEN x
                          ELSE IF RLess(init[Len(init)].q, x.q) THEN x
                          ELSE init[Len(init)])

\* Series.min(): nan for an empty series
RECURSIVE SeriesMin(_)
SeriesMin(s) ==
    IF s = <<>> THEN NaN
    ELSE LET rest == SeriesMin(Tail(s))
         IN  IF rest.nan \/ RLess(s[1].q, rest.q) THEN s[1] ELSE rest

\* ------------------------------------------------------- calculate_metrics
RISK_FREE_RATE == Norm(4, 100)

\* max drawdown of the daily returns, times 100 (before rounding)
MaxDrawdownOf(daily_returns) ==
    LET cumulative == cumprod1p(daily_returns)
        rolling_max == cummax(cumulative)
        drawdown == [i \in 1..Len(cumulative) |->
                        Num(RDiv(RSub(cumulative[i].q, rolling_max[i].q),
                                 rolling_max[i].q))]
        m == SeriesMin(drawdown)
    IN  IF m.nan THEN NaN ELSE Num(RMul(m.q, RHundred))

\* "Annualized Return (%)": round(((base ** (1 / years)) - 1) * 100, 2) with
\* years = len / days, as a term; it is 0.0 when base = 1
AnnualizedOf(total_return, len) ==
    [ndigits |-> 2, base |-> RAdd(ROne, RDiv(total_return.q, RHundred)),
     len |-> len, days |-> TradingDays]

\* "Sharpe Ratio": round(sharpe_ratio, 2), where sharpe_ratio is the term
\* excess_return / (volatility / 100) when volatility > 0 and the integer 0
\* (zero = TRUE) when not
SharpeOf(annualized, sd) ==
    [ndigits |-> 2, zero |-> ~VolPositive(sd), ann |-> annualized,
     rf |-> RISK_FREE_RATE, vol |-> sd]

NoStd == [nan |-> TRUE, var |-> RZero, noise |-> FALSE]

NoRecord ==
    [Ticker |-> "", TotalReturn |-> NaN,
     AnnualizedReturn |-> AnnualizedOf(Num(RZero), 0),
     Volatility |-> VolatilityOf(NoStd), MaxDrawdown |-> NaN,
     SharpeRatio |-> SharpeOf(AnnualizedOf(Num(RZero), 0), NoStd)]

Raise(e) == [raised |-> e, rec |-> NoRecord]
Return(r) == [raised |-> "none", rec |-> r]

\* calculate_metrics(prices, name): the records the code may return (one,
\* unless the rounding error of the doubles decides), or the exception
\* raised.  A numpy scalar has no pct_change (AttributeError); iloc[-1] of an
\* empty Series is out of bounds (IndexError).
calculate_metrics(prices, name) ==
    IF prices.scalar THEN {Raise("AttributeError")}
    ELSE IF prices.v = <<>> THEN {Raise("IndexError")}
    ELSE
      LET v == prices.v
          daily_returns == dropna(pct_change(v))
          growth == RDiv(RInt(v[Len(v)]), RInt(v[1]))
          total_return == Num(RMul(RSub(growth, ROne), RHundred))
          annualized_return == AnnualizedOf(total_return, Len(v))
          max_drawdown == MaxDrawdownOf(daily_returns)
          returns_exact == \A k \in 1..Len(daily_returns) : IsDyadic(daily_returns[k].q)
      IN  {Return([Ticker |-> name,
                   TotalReturn |-> tr,
                   AnnualizedReturn |-> annualized_return,
                   Volatility |-> VolatilityOf(sd),
                   MaxDrawdown |-> md,
                   SharpeRatio |-> SharpeOf(annualized_return, sd)]) :
              tr \in Round2F(total_return, IsDyadic(growth)),
              sd \in StdOutcomes(daily_returns),
              md \in Round2F(max_drawdown,
                             returns_exact /\ (max_drawdown.nan \/ IsDyadic(max_drawdown.q)))}

\* ------------------------------------------------------------------ state
VARIABLES
    lpc,          \* launcher: where launcher.main is ("none": not used)
    largs,        \* launcher: the answers collected so far
    pc,           \* backtester: where backtester.main is
    args,         \* backtester: the parsed command line
    i,            \* backtester: position in args.tickers
    results,      \* backtester: list of metrics records
    price_data,   \* backtester: dict label -> prices, in insertion order
    out,          \* the terminal: lines printed by both programs
    table,        \* rows shown by display_results
    csv,          \* the file written by save_csv
    chart,        \* the lines plotted and saved by generate_chart
    status,       \* exit status of the backtester process
    calc_pc,      \* a direct call of calculate_metrics: ready / done
    calc_prices,  \* its argument
    calc_result   \* what it returned or raised

vars == <<lpc, largs, pc, args, i, results, price_data, out, table, csv, chart,
          status, calc_pc, calc_prices, calc_result>>

progvars == <<lpc, largs, pc, args, i, results, price_data, out, table, csv, chart, status>>
calcvars == <<calc_pc, calc_prices, calc_result>>

\* ------------------------------------------------------------ backtester
INDEX_MAPPING ==
    [SP500 |-> "^GSPC", NASDAQ |-> "^IXIC", DOW |-> "^DJI", RUSSELL2000 |-> "^RUT"]

\* ticker symbols given on the command line; one of them spells an index name
TickerNames == {"A", "SP500"}
\* --index: "" stands for the option not given (None)
IndexArgs == {"", "SP500", "NASDAQ"}
CliYears == {2020, 2021}

\* what yf.download may return for a fetch: no rows, one row, several rows
SampleData == {<<>>, <<2>>, <<2, 1>>, <<2, 3, 1>>, <<1, 1, 1>>}

TickerLists == {t \in SeqsUpTo(TickerNames, MaxTickers) : Len(t) >= 1}

NoArgs == [tickers |-> <<>>, start |-> 0, end |-> 0, index |-> "", output_dir |-> ""]
NoCsv == [written |-> FALSE, dir |-> "", start |-> 0, end |-> 0, rows |-> <<>>]
NoChart == [written |-> FALSE, dir |-> "", start |-> 0, end |-> 0, lines |-> <<>>]

Line(l, a) == [line |-> l, arg |-> a]

\* dict: a sequence of [key, val] in insertion order; assigning to a key that
\* is present replaces its value in place
Keys(d) == [j \in 1..Len(d) |-> d[j].key]
HasKey(d, k) == \E j \in 1..Len(d) : d[j].key = k
DictSet(d, k, v) ==
    IF HasKey(d, k)
    THEN [j \in 1..Len(d) |-> IF d[j].key = k THEN [key |-> k, val |-> v] ELSE d[j]]
    ELSE Append(d, [key |-> k, val |-> v])

\* data["Close"].squeeze(): a single element is squeezed to a scalar
Squeeze(data) == IF Len(data) = 1 THEN Scalar(data[1]) ELSE Series(data)

\* One pass through the body of try/except for one symbol: fetch_data,
\* squeeze, calculate_metrics, then either both appends or the except branch.
\* `data` is what yf.download returned.  The set of outcomes: one per record
\* calculate_metrics may return.
ProcessSymbol(ticker, label, data, res, pd, o) ==
    LET o1 == Append(o, Line("Fetching", ticker))
    IN  IF data = <<>>
        THEN \* fetch_data raises ValueError
             {[results |-> res, price_data |-> pd,
               out |-> Append(o1, Line("ErrorFetching", label))]}
        ELSE LET prices == Squeeze(data)
             IN  {IF metrics.raised # "none"
                  THEN [results |-> res, price_data |-> pd,
                        out |-> Append(o1, Line("ErrorFetching", label))]
                  ELSE [results |-> Append(res, metrics.rec),
                        price_data |-> DictSet(pd, label, prices),
                        out |-> o1] :
                     metrics \in calculate_metrics(prices, label)}

\* main, lines 161-186: the date range check, the banner, the empty outputs
Validate ==
    /\ pc = "start"
    /\ IF args.start > args.end
       THEN /\ out' = Append(out, Line("StartAfterEnd", ""))
            /\ pc' = "exited"
            /\ status' = "exit0"
            /\ UNCHANGED <<i, results, price_data>>
       ELSE /\ out' = Append(out, Line("Backtesting", ""))
            /\ pc' = "tickers"
            /\ status' = status
            /\ i' = 1
            /\ results' = <<>>
            /\ price_data' = <<>>
    /\ UNCHANGED <<lpc, largs, args, table, csv, chart, calcvars>>

\* FetchTicker without the except branch: the exception of a failing symbol
\* leaves main and ends the process
FetchTickerAbort ==
    /\ pc = "tickers"
    /\ i <= Len(args.tickers)
    /\ \E data \in SampleData :
        \E r \in ProcessSymbol(args.tickers[i], args.tickers[i], data,
                               results, price_data, out) :
          LET failed == r.results = results
          IN  /\ results' = r.results
              /\ price_data' = r.price_data
              /\ out' = r.out
              /\ pc' = IF failed THEN "exited"
                       ELSE IF i = Len(args.tickers) THEN "index" ELSE "tickers"
              /\ status' = IF failed THEN "exit1" ELSE status
    /\ i' = i + 1
    /\ UNCHANGED <<lpc, largs, args, table, csv, chart, calcvars>>

\* main, lines 188-196: one iteration of the loop over args.tickers
FetchTicker ==
    /\ pc = "tickers"
    /\ i <= Len(args.tickers)
    /\ \E data \in SampleData :
        \E r \in ProcessSymbol(args.tickers[i], args.tickers[i], data,
                               results, price_data, out) :
              /\ results' = r.results
              /\ price_data' = r.price_data
              /\ out' = r.out
    /\ i' = i + 1
    /\ pc' = IF i = Len(args.tickers) THEN "index" ELSE "tickers"
    /\ UNCHANGED <<lpc, largs, args, table, csv, chart, status, calcvars>>

\* main, lines 198-208: the benchmark, labelled by the index name
FetchIndex ==
    /\ pc = "index"
    /\ IF args.index # ""
       THEN \E data \in SampleData :
             \E r \in ProcessSymbol(INDEX_MAPPING[args.index], args.index, data,
                                    results, price_data, out) :
                   /\ results' = r.results
                   /\ price_data' = r.price_data
                   /\ out' = r.out
       ELSE UNCHANGED <<results, price_data, out>>
    /\ pc' = "report"
    /\ UNCHANGED <<lpc, largs, args, i, table, csv, chart, status, calcvars>>

\* main, lines 210-215: nothing to analyze (print and return), or the table
Report ==
    /\ pc = "report"
    /\ IF results = <<>>
       THEN /\ out' = Append(out, Line("NoData", ""))
            /\ pc' = "exited"
            /\ status' = "exit0"
            /\ table' = table
       ELSE /\ out' = Append(out, Line("PerformanceMetrics", ""))
            /\ table' = results
            /\ pc' = "save"
            /\ status' = status
    /\ UNCHANGED <<lpc, largs, args, i, results, price_data, csv, chart, calcvars>>

\* save_csv: writes backtest_<start>_<end>.csv under output_dir; an OSError
\* of makedirs / to_csv is not caught anywhere and ends the process
SaveCsv ==
    /\ pc = "save"
    /\ \E ok \in BOOLEAN :
          IF ok
          THEN /\ csv' = [written |-> TRUE, dir |-> args.output_dir,
                          start |-> args.start, end |-> args.end, rows |-> results]
               /\ out' = Append(out, Line("ResultsSaved", ""))
               /\ pc' = "chart"
               /\ status' = status
          ELSE /\ UNCHANGED <<csv, out>>
               /\ pc' = "exited"
               /\ status' = "exit1"
    /\ UNCHANGED <<lpc, largs, args, i, results, price_data, table, chart, calcvars>>

\* Normalize rebased on the last price instead of the first
NormalizeByLast(v) ==
    [j \in 1..Len(v) |-> RMul(RDiv(RInt(v[j]), RInt(v[Len(v)])), RHundred)]

\* prices / prices.iloc[0] * 100
Normalize(v) == [j \in 1..Len(v) |-> RMul(RDiv(RInt(v[j]), RInt(v[1])), RHundred)]

\* generate_chart, then "Backtest complete!" and the return of main; an
\* OSError of makedirs / savefig (the path is a directory, the disk is full)
\* is not caught anywhere and ends the process
GenerateChart ==
    /\ pc = "chart"
    /\ \E ok \in BOOLEAN :
          IF ok
          THEN /\ chart' = [written |-> TRUE, dir |-> args.output_dir,
                            start |-> args.start, end |-> args.end,
                            lines |-> [j \in 1..Len(price_data) |->
                                         [label |-> price_data[j].key,
                                          normalized |-> Normalize(price_data[j].val.v)]]]
               /\ out' = out \o <<Line("ChartSaved", ""), Line("BacktestComplete", "")>>
               /\ status' = "exit0"
          ELSE /\ UNCHANGED <<chart, out>>
               /\ status' = "exit1"
    /\ pc' = "exited"
    /\ UNCHANGED <<lpc, largs, args, i, results, price_data, table, csv, calcvars>>

\* -------------------------------------------------------------- launcher
CurrentYear == 2026

\* what the user may type at each prompt
TypedTokens == {"a", "sp500"}
TypedTickers == SeqsUpTo(TypedTokens, MaxTickers)
YearInputs == {"", "2020", "1899", "abc"}
IndexInputs == {"", "2", "5", "7"}
DirInputs == {"", "reports"}
ConfirmInputs == {"", "Y", "yes", "n"}

\* str.upper() / str.lower() on the strings above
Upper(t) == CASE t = "a" -> "A" [] t = "sp500" -> "SP500" [] OTHER -> t
Lower(t) == CASE t = "Y" -> "y" [] OTHER -> t

\* int(text): the year, or -1 for ValueError
ParseInt(t) ==
    CASE t = "2020" -> 2020 [] t = "2021" -> 2021 [] t = "2025" -> 2025
      [] t = "1899" -> 1899 [] OTHER -> -1
\* str(year)
Str(y) ==
    CASE y = 2020 -> "2020" [] y = 2021 -> "2021" [] y = 2025 -> "2025"
      [] OTHER -> "?"

NoAnswers == [tickers |-> <<>>, start |-> 0, end |-> 0, index |-> "", output_dir |-> ""]

\* get_year(prompt, default): the year accepted, or 0 when the prompt repeats
get_year(typed, default) ==
    IF typed = "" THEN default
    ELSE LET year == ParseInt(typed)
         IN  IF year = -1 THEN 0
             ELSE IF 1900 <= year /\ year <= CurrentYear THEN year ELSE 0

\* get_tickers: upper-cased, split; an empty answer repeats the prompt
get_tickers ==
    /\ lpc = "tickers"
    /\ \E typed \in TypedTickers :
          IF typed = <<>>
          THEN UNCHANGED <<lpc, largs>>
          ELSE /\ largs' = [largs EXCEPT !.tickers = [j \in 1..Len(typed) |-> Upper(typed[j])]]
               /\ lpc' = "start_year"
    /\ UNCHANGED <<pc, args, i, results, price_data, out, table, csv, chart, status, calcvars>>

\* get_date_range, first half: the start year (default: current year - 5)
get_start_year ==
    /\ lpc = "start_year"
    /\ \E typed \in YearInputs :
          LET year == get_year(typed, CurrentYear - 5)
          IN  IF year = 0
              THEN UNCHANGED <<lpc, largs>>
              ELSE /\ largs' = [largs EXCEPT !.start = year]
                   /\ lpc' = "end_year"
    /\ UNCHANGED <<pc, args, i, results, price_data, out, table, csv, chart, status, calcvars>>

\* get_date_range, second half: the end year (default: current year - 1),
\* asked again until end_year >= start_year
get_end_year ==
    /\ lpc = "end_year"
    /\ \E typed \in YearInputs :
          LET year == get_year(typed, CurrentYear - 1)
          IN  IF year = 0 \/ ~(year >= largs.start)
              THEN UNCHANGED <<lpc, largs>>
              ELSE /\ largs' = [largs EXCEPT !.end = year]
                   /\ lpc' = "index"
    /\ UNCHANGED <<pc, args, i, results, price_data, out, table, csv, chart, status, calcvars>>

\* get_index: the menu 1-5; "" stands for None
indices(choice) ==
    CASE choice = "1" -> "SP500" [] choice = "2" -> "NASDAQ" [] choice = "3" -> "DOW"
      [] choice = "4" -> "RUSSELL2000" [] choice = "5" -> ""
IndexMenu == {"1", "2", "3", "4", "5"}

get_index ==
    /\ lpc = "index"
    /\ \E typed \in IndexInputs :
          LET choice == IF typed = "" THEN "1" ELSE typed
          IN  IF choice \in IndexMenu
              THEN /\ largs' = [largs EXCEPT !.index = indices(choice)]
                   /\ lpc' = "output_dir"
              ELSE UNCHANGED <<lpc, largs>>
    /\ UNCHANGED <<pc, args, i, results, price_data, out, table, csv, chart, status, calcvars>>

get_output_dir ==
    /\ lpc = "output_dir"
    /\ \E typed \in DirInputs :
          largs' = [largs EXCEPT !.output_dir = IF typed = "" THEN "output" ELSE typed]
    /\ lpc' = "confirm"
    /\ UNCHANGED <<pc, args, i, results, price_data, out, table, csv, chart, status, calcvars>>

\* confirm_and_run up to subprocess.run: on '', 'y', 'yes' the command line is
\* built (years through str, read back by argparse's type=int) and the
\* backtester process starts; anything else cancels
confirm_and_run ==
    /\ lpc = "confirm"
    /\ \E typed \in ConfirmInputs :
          IF Lower(typed) \in {"", "y", "yes"}
          THEN /\ args' = [tickers |-> largs.tickers,
                           start |-> ParseInt(Str(largs.start)),
                           end |-> ParseInt(Str(largs.end)),
                           index |-> largs.index,
                           output_dir |-> largs.output_dir]
               /\ out' = Append(out, Line("RunningBacktest", ""))
               /\ pc' = "start"
               /\ status' = "running"
               /\ lpc' = "running"
          ELSE /\ out' = Append(out, Line("Cancelled", ""))
               /\ lpc' = "end"
               /\ UNCHANGED <<args, pc, status>>
    /\ UNCHANGED <<largs, i, results, price_data, table, csv, chart, calcvars>>

\* confirm_and_run after subprocess.run(check=True) returns: exit status 0 is
\* reported as success, any other raises CalledProcessError
subprocess_returned ==
    /\ lpc = "running"
    /\ pc = "exited"
    /\ out' = Append(out, Line(IF status = "exit0" THEN "Success" ELSE "ErrorRunning", ""))
    /\ lpc' = "end"
    /\ UNCHANGED <<largs, pc, args, i, results, price_data, table, csv, chart, status, calcvars>>

\* --------------------------------------------------------- specification
\* Either the backtester is started from a shell with a valid command line,
\* or the launcher is started and collects the answers first.
CliArgs ==
    {[tickers |-> t, start |-> s, end |-> e, index |-> x, output_dir |-> "output"] :
        t \in TickerLists, s \in CliYears, e \in CliYears, x \in IndexArgs}

Init ==
    /\ \/ /\ lpc = "none"
          /\ pc = "start"
          /\ args \in CliArgs
          /\ status = "running"
       \/ /\ lpc = "tickers"
          /\ pc = "idle"
          /\ args = NoArgs
          /\ status = "none"
    /\ largs = NoAnswers
    /\ i = 1
    /\ results = <<>>
    /\ price_data = <<>>
    /\ out = <<>>
    /\ table = <<>>
    /\ csv = NoCsv
    /\ chart = NoChart
    /\ calc_pc = "idle"
    /\ calc_prices = Series(<<>>)
    /\ calc_result = Raise("none")

Next ==
    \/ get_tickers
    \/ get_start_year
    \/ get_end_year
    \/ get_index
    \/ get_output_dir
    \/ confirm_and_run
    \/ subprocess_returned
    \/ Validate
    \/ FetchTicker
    \/ FetchIndex
    \/ Report
    \/ SaveCsv
    \/ GenerateChart

Spec == Init /\ [][Next]_vars

\* calculate_metrics called directly on every Series of up to MaxLen prices,
\* and on a few with larger prices where the doubles decide the outcome:
\* equal non-dyadic returns, and total returns half way between hundredths
ExtraSeries == {<<27, 9, 3, 1>>, <<27, 18, 12, 8>>, <<20000, 20001>>, <<32, 33>>}

CalcInit ==
    /\ lpc = "none"
    /\ pc = "idle"
    /\ args = NoArgs
    /\ status = "none"
    /\ largs = NoAnswers
    /\ i = 1
    /\ results = <<>>
    /\ price_data = <<>>
    /\ out = <<>>
    /\ table = <<>>
    /\ csv = NoCsv
    /\ chart = NoChart
    /\ calc_pc = "ready"
    /\ calc_prices \in {Series(v) : v \in AllSeries \cup ExtraSeries}
    /\ calc_result = Raise("none")

Calc ==
    /\ calc_pc = "ready"
    /\ calc_result' \in calculate_metrics(calc_prices, "X")
    /\ calc_pc' = "done"
    /\ UNCHANGED <<calc_prices, progvars>>

CalcNext == Calc

SpecCalc == CalcInit /\ [][CalcNext]_vars

\* ================================================================ claims
\* main, lines 179-182: the symbols main is going to fetch
tickers_to_fetch(a) ==
    a.tickers \o (IF a.index # "" THEN <<INDEX_MAPPING[a.index]>> ELSE <<>>)

\* the label under which request k is reported
LabelOf(a, k) == IF k <= Len(a.tickers) THEN a.tickers[k] ELSE a.index

\* read off the terminal: one entry per fetch, failed when the line that
\* follows "Fetching data for ..." is "Error fetching ..."
RECURSIVE Outcomes(_)
Outcomes(o) ==
    IF o = <<>> THEN <<>>
    ELSE IF o[1].line = "Fetching"
         THEN <<[ticker |-> o[1].arg,
                 failed |-> Len(o) >= 2 /\ o[2].line = "ErrorFetching"]>>
              \o Outcomes(Tail(o))
         ELSE Outcomes(Tail(o))

RECURSIVE SucceededUpTo(_, _, _)
SucceededUpTo(a, oc, k) ==
    IF k = 0 THEN <<>>
    ELSE SucceededUpTo(a, oc, k - 1)
         \o (IF oc[k].failed THEN <<>> ELSE <<LabelOf(a, k)>>)

SucceededLabels == SucceededUpTo(args, Outcomes(out), Len(Outcomes(out)))
FetchedSymbols == [k \in 1..Len(Outcomes(out)) |-> Outcomes(out)[k].ticker]
ResultLabels == [k \in 1..Len(results) |-> results[k].Ticker]
SetOf(s) == {s[k] : k \in 1..Len(s)}
Has(l) == \E k \in 1..Len(out) : out[k].line = l

\* the loop is over: main is past the benchmark, or has returned after it
LoopsOver ==
    \/ pc \in {"report", "save", "chart"}
    \/ pc = "exited" /\ args.start <= args.end

\* first occurrences, in order
RECURSIVE Dedup(_)
Dedup(s) ==
    IF s = <<>> THEN <<>>
    ELSE LET d == Dedup(SubSeq(s, 1, Len(s) - 1))
         IN  IF s[Len(s)] \in SetOf(d) THEN d ELSE Append(d, s[Len(s)])

\* C1: a failing symbol never aborts the comparison run.  While main runs,
\* the fetches made so far are exactly the requests up to the loop position;
\* once the loops are over every ticker and the benchmark has been fetched,
\* whichever of them failed; results holds one row per request that
\* succeeded and none for a request that failed, and price_data holds the
\* labels of the requests that succeeded and no other.
C1_FailureDoesNotAbort ==
    /\ pc = "tickers" => Len(Outcomes(out)) = i - 1
    /\ pc = "index" => Len(Outcomes(out)) = Len(args.tickers)
    /\ LoopsOver => FetchedSymbols = tickers_to_fetch(args)
    /\ pc \in {"tickers", "index"} \/ LoopsOver =>
          /\ FetchedSymbols = SubSeq(tickers_to_fetch(args), 1, Len(Outcomes(out)))
          /\ ResultLabels = SucceededLabels
          /\ SetOf(Keys(price_data)) = SetOf(SucceededLabels)

\* the first ticker failed, the second ticker and the benchmark were still
\* processed and reported
C1_Witness ==
    /\ pc = "exited"
    /\ chart.written
    /\ Len(args.tickers) = 2
    /\ args.index # ""
    /\ Len(Outcomes(out)) = 3
    /\ Outcomes(out)[1].failed
    /\ ~Outcomes(out)[2].failed
    /\ ~Outcomes(out)[3].failed
    /\ ResultLabels = <<args.tickers[2], args.index>>

\* C2 (as claimed): when every requested symbol failed the run ends with an
\* error status and shows, saves and charts nothing; when some symbol
\* succeeded it does not end in the no-data outcome.
C2_NoUsableDataIsAnError ==
    pc = "exited" /\ args.start <= args.end =>
        IF SucceededLabels = <<>>
        THEN /\ status # "exit0"
             /\ table = <<>>
             /\ ~csv.written
             /\ ~chart.written
        ELSE ~Has("NoData")

\* C3 (as claimed): calculate_metrics raises for every Series of length 1.
C3_SinglePointRaises ==
    calc_pc = "done" /\ Len(calc_prices.v) = 1 => calc_result.raised # "none"

\* the drawdown of the claim, before rounding: the path starts at c_0 = 1
ClaimedMaxDrawdown(v) ==
    LET path == <<Num(ROne)>> \o cumprod1p(dropna(pct_change(v)))
        peak == cummax(path)
        dd == [k \in 1..Len(path) |->
                  Num(RDiv(RSub(path[k].q, peak[k].q), peak[k].q))]
    IN  Num(RMul(SeriesMin(dd).q, RHundred))

NeverDeclines(v) == \A j, k \in 1..Len(v) : j < k => v[j] <= v[k]

\* C4 (as claimed): for two or more prices the max drawdown is 100 times the
\* minimum drawdown of the whole path from the first price on; it is <= 0,
\* and 0 exactly when no price is lower than an earlier one.
C4_DrawdownFromFirstPrice ==
    calc_pc = "done" /\ Len(calc_prices.v) >= 2 =>
        /\ calc_result.raised = "none"
        /\ calc_result.rec.MaxDrawdown \in Round2F(ClaimedMaxDrawdown(calc_prices.v), FALSE)
        /\ ~calc_result.rec.MaxDrawdown.nan
        /\ calc_result.rec.MaxDrawdown.q[1] <= 0
        /\ (calc_result.rec.MaxDrawdown.q[1] = 0 <=> NeverDeclines(calc_prices.v))

\* C5 (as claimed): for a series of two or more prices the volatility of the
\* record is a number, never nan and never negative, and it is 0 when there
\* are fewer than two daily returns.
C5_VolatilityZeroByConvention ==
    calc_pc = "done" /\ Len(calc_prices.v) >= 2 /\ calc_result.raised = "none" =>
        /\ ~calc_result.rec.Volatility.nan
        /\ Len(dropna(pct_change(calc_prices.v))) < 2 =>
              calc_result.rec.Volatility.zero

IsConstant(v) == \A j \in 1..Len(v) : v[j] = v[1]

\* C7 (as claimed): a constant series of two or more prices has total
\* return, volatility, Sharpe ratio and max drawdown 0; and the Sharpe ratio
\* is 0 whenever the volatility reported is 0.
C7_ConstantSeriesAllZero ==
    calc_pc = "done" /\ Len(calc_prices.v) >= 2 =>
        /\ calc_result.raised = "none"
        /\ calc_result.rec.Volatility.zero => calc_result.rec.SharpeRatio.zero
        /\ IsConstant(calc_prices.v) =>
              /\ calc_result.rec.TotalReturn = Num(RZero)
              /\ calc_result.rec.Volatility.zero
              /\ calc_result.rec.SharpeRatio.zero
              /\ calc_result.rec.MaxDrawdown = Num(RZero)

\* C6 (as claimed, repeats read leniently): after the loops both outputs
\* hold exactly the labels that succeeded, first occurrences in input order,
\* and the benchmark, if requested and successful, is the last entry of each.
C6_OutputsInInputOrder ==
    LoopsOver =>
        /\ Dedup(ResultLabels) = Dedup(SucceededLabels)
        /\ Keys(price_data) = Dedup(SucceededLabels)
        /\ args.index # "" /\ ~Outcomes(out)[Len(Outcomes(out))].failed =>
              /\ ResultLabels[Len(results)] = args.index
              /\ Keys(price_data)[Len(price_data)] = args.index

\* C8: every charted line is its own price series rebased on its own first
\* price (normalized_j * p_1 = p_j * 100), so it starts at exactly 100; the
\* lines are the entries of price_data in order, and charting leaves
\* price_data as it was.
C8_Lines ==
    chart.written =>
        /\ Len(chart.lines) = Len(price_data)
        /\ \A j \in 1..Len(chart.lines) :
              LET v == price_data[j].val.v
                  n == chart.lines[j].normalized
              IN  /\ chart.lines[j].label = price_data[j].key
                  /\ Len(n) = Len(v)
                  /\ n[1] = RHundred
                  /\ \A k \in 1..Len(v) : n[k][1] * v[1] = v[k] * 100 * n[k][2]

\* C8: the above in every state, and the step that charts (pc = "chart")
\* never changes price_data.
C8_Normalization ==
    /\ []C8_Lines
    /\ [][pc = "chart" => price_data' = price_data]_vars

\* two lines with different first prices, one of them rising and falling
C8_Witness ==
    /\ chart.written
    /\ Len(chart.lines) = 2
    /\ price_data[1].val.v = <<2, 3, 1>>
    /\ price_data[2].val.v = <<1, 1, 1>>
    /\ chart.lines[1].normalized = <<<<100, 1>>, <<150, 1>>, <<50, 1>>>>

\* C9 (as claimed): after each symbol the rows of results and the keys of
\* price_data are the same labels in the same order, one entry per label.
C9_ResultsMatchPriceData ==
    /\ ResultLabels = Keys(price_data)
    /\ Cardinality(SetOf(ResultLabels)) = Len(results)

\* C10 (as claimed): the backtester is started by the launcher only after a
\* confirmation, with at least one ticker and end >= start; SUCCESS is printed
\* only for a run that showed the table and wrote the CSV and the chart,
\* never for a run that printed "No data to analyze" or the start > end
\* rejection.
C10_SuccessOnlyForCompleteRun ==
    /\ lpc \in {"running", "end"} /\ pc # "idle" =>
          /\ Has("RunningBacktest")
          /\ Len(args.tickers) >= 1
          /\ args.end >= args.start
    /\ Has("Success") =>
          /\ table # <<>>
          /\ csv.written
          /\ chart.written
          /\ ~Has("NoData")
          /\ ~Has("StartAfterEnd")

====
